---------------------------- MODULE Spec2Model ----------------------------
(***************************************************************************)
(* Minesweeper rules engine: components.Board (src/components.py), and the *)
(* calls the presentation layer makes on it (src/run.py).                  *)
(*                                                                         *)
(* The state is one Board object: its configuration (cols, rows,           *)
(* num_mines), its flat list of cells, and the fields _mines_placed,       *)
(* revealed_count, game_over and win.  Every public method is one action;  *)
(* an action models the whole call, the private helpers it runs included.  *)
(* random.shuffle is a nondeterministic choice of the cells that end up in *)
(* the prefix pool[:num_mines].                                            *)
(***************************************************************************)
EXTENDS Integers, Sequences, FiniteSets

VARIABLES
    cols,             \* Board.cols
    rows,             \* Board.rows
    num_mines,        \* Board.num_mines
    cells,            \* Board.cells: flat index -> CellState
    mines_placed,     \* Board._mines_placed
    revealed_count,   \* Board.revealed_count
    game_over,        \* Board.game_over
    win,              \* Board.win
    started,          \* Game.started
    hints_left        \* Game.hints_left

vars == <<cols, rows, num_mines, cells, mines_placed, revealed_count,
          game_over, win, started, hints_left>>

\* The fields of Game that decide which Board calls it makes.
game == <<started, hints_left>>

board == <<cells, mines_placed, revealed_count, game_over, win>>

(***************************************************************************)
(* Bounds of the model.                                                    *)
(***************************************************************************)
MaxCols == 5
MaxRows == 3
MaxCells == 10
MaxMines == 1
MaxFlags == 1
\* Boards of at most SmallCells cells carry up to MaxFlagsSmall flags.
SmallCells == 6
MaxFlagsSmall == 3

Min(a, b) == IF a <= b THEN a ELSE b
Max(a, b) == IF a >= b THEN a ELSE b

\* Board(cols, rows, mines) takes any integers: the constructor checks nothing.
ColsRange == -1 .. MaxCols
RowsRange == -1 .. MaxRows
MinesRange == -1 .. MaxMines

(***************************************************************************)
(* Python values returned by a call.                                       *)
(***************************************************************************)
PyNone == [type |-> "NoneType", val |-> 0]
PyInt(n) == [type |-> "int", val |-> n]

(***************************************************************************)
(* CellState() and the grid.                                               *)
(***************************************************************************)
CellState == [is_mine |-> FALSE, is_revealed |-> FALSE,
              is_flagged |-> FALSE, adjacent |-> 0]

\* len([Cell(c, r) for r in range(rows) for c in range(cols)]):
\* range(n) is empty for n <= 0.
NumCells(c, r) == Max(c, 0) * Max(r, 0)

index(col, row) == row * cols + col

is_inbounds(col, row) == 0 <= col /\ col < cols /\ 0 <= row /\ row < rows

deltas == << <<-1, -1>>, <<0, -1>>, <<1, -1>>,
             <<-1, 0>>,             <<1, 0>>,
             <<-1, 1>>,  <<0, 1>>,  <<1, 1>> >>

\* Mutant of neighbors: the delta (0, 0) is among the deltas.
neighbors_with_self(col, row) ==
    LET cand == [i \in 1 .. 9 |->
                    <<col + ((i - 1) % 3) - 1, row + ((i - 1) \div 3) - 1>>]
    IN  SelectSeq(cand, LAMBDA p : is_inbounds(p[1], p[2]))

neighbors(col, row) ==
    LET cand == [i \in 1 .. Len(deltas) |->
                    <<col + deltas[i][1], row + deltas[i][2]>>]
    IN  SelectSeq(cand, LAMBDA p : is_inbounds(p[1], p[2]))

Range(s) == {s[i] : i \in DOMAIN s}

\* all_positions of place_mines, as a set
all_positions == {<<c, r>> : c \in 0 .. cols - 1, r \in 0 .. rows - 1}

\* Coordinates a caller passes: every in-bounds pair and, for each of the
\* four comparisons of is_inbounds, one pair that fails it.
CallArgs ==
    all_positions \cup {<<-1, 0>>, <<cols, 0>>, <<0, -1>>, <<0, rows>>}

(***************************************************************************)
(* place_mines                                                             *)
(***************************************************************************)
\* Mutant of forbidden: only the clicked cell is kept free of mines.
forbidden_click_only(safe_col, safe_row) == {<<safe_col, safe_row>>}

forbidden(safe_col, safe_row) ==
    {<<safe_col, safe_row>>} \cup Range(neighbors(safe_col, safe_row))

pool(safe_col, safe_row) == all_positions \ forbidden(safe_col, safe_row)

\* len(pool[:n]) for a list of length len: Python slicing clamps, and a
\* negative n counts from the end.
SliceLen(len, n) == IF n >= 0 THEN Min(n, len) ELSE Max(len + n, 0)

\* The subsets of S that have k elements.
RECURSIVE KSubsets(_, _)
KSubsets(S, k) ==
    IF k = 0 THEN {{}}
    ELSE IF Cardinality(S) < k THEN {}
    ELSE LET x == CHOOSE y \in S : TRUE
         IN  {T \cup {x} : T \in KSubsets(S \ {x}, k - 1)}
                \cup KSubsets(S \ {x}, k)

\* The sets of cells that can be pool[:num_mines] after random.shuffle(pool):
\* every set of len(pool[:num_mines]) cells of the pool.
MinePrefixes(safe_col, safe_row) ==
    LET p == pool(safe_col, safe_row)
    IN  KSubsets(p, SliceLen(Cardinality(p), num_mines))

\* Mutant of place_mines: step 5 counts only the neighbours in the same row.
place_mines_counts_row(cs, mines) ==
    LET mined == [i \in DOMAIN cs |->
                    IF \E p \in mines : index(p[1], p[2]) = i
                    THEN [cs[i] EXCEPT !.is_mine = TRUE] ELSE cs[i]]
        count(c, r) == Cardinality({p \in Range(neighbors(c, r)) :
                                        /\ p[2] = r
                                        /\ mined[index(p[1], p[2])].is_mine})
    IN  [i \in DOMAIN cs |->
            IF mined[i].is_mine THEN mined[i]
            ELSE [mined[i] EXCEPT !.adjacent = count(i % cols, i \div cols)]]

\* Steps 4-5 of place_mines on cell list cs, with `mines` the shuffled prefix.
place_mines(cs, mines) ==
    LET mined == [i \in DOMAIN cs |->
                    IF \E p \in mines : index(p[1], p[2]) = i
                    THEN [cs[i] EXCEPT !.is_mine = TRUE] ELSE cs[i]]
        count(c, r) == Cardinality({p \in Range(neighbors(c, r)) :
                                        mined[index(p[1], p[2])].is_mine})
    IN  [i \in DOMAIN cs |->
            IF mined[i].is_mine THEN mined[i]
            ELSE [mined[i] EXCEPT !.adjacent = count(i % cols, i \div cols)]]

(***************************************************************************)
(* _reveal_all_mines, _check_win                                           *)
(***************************************************************************)
\* Mutant of reveal_all_mines: the mines are left as they are.
reveal_all_mines_skipped(cs) == cs

reveal_all_mines(cs) ==
    [i \in DOMAIN cs |->
        IF cs[i].is_mine THEN [cs[i] EXCEPT !.is_revealed = TRUE] ELSE cs[i]]

\* Mutant of check_win: the forced reveal does not spare the mines.
check_win_reveals_mines(cs, rc, go, w) ==
    IF rc = cols * rows - num_mines /\ ~go
    THEN [cells |-> [i \in DOMAIN cs |-> [cs[i] EXCEPT !.is_revealed = TRUE]],
          win |-> TRUE]
    ELSE [cells |-> cs, win |-> w]

\* Mutant of check_win: the count is compared with one cell less.
check_win_one_short(cs, rc, go, w) ==
    IF rc = cols * rows - num_mines - 1 /\ ~go
    THEN [cells |-> [i \in DOMAIN cs |->
                        IF ~cs[i].is_revealed /\ ~cs[i].is_mine
                        THEN [cs[i] EXCEPT !.is_revealed = TRUE] ELSE cs[i]],
          win |-> TRUE]
    ELSE [cells |-> cs, win |-> w]

\* Returns the cells and win after _check_win.
check_win(cs, rc, go, w) ==
    IF rc = cols * rows - num_mines /\ ~go
    THEN [cells |-> [i \in DOMAIN cs |->
                        IF ~cs[i].is_revealed /\ ~cs[i].is_mine
                        THEN [cs[i] EXCEPT !.is_revealed = TRUE] ELSE cs[i]],
          win |-> TRUE]
    ELSE [cells |-> cs, win |-> w]

(***************************************************************************)
(* The flood fill of reveal: the while loop over the explicit stack.       *)
(* Returns the cells, revealed_count and the number of pops when the       *)
(* stack is empty.                                                         *)
(***************************************************************************)
\* Mutant of flood_fill: revealed_count is incremented before the
\* already-revealed check, so a cell queued twice is counted twice.
RECURSIVE flood_fill_counts_pops(_, _, _, _)
flood_fill_counts_pops(stack, cs, rc, pops) ==
    IF stack = <<>> THEN [cells |-> cs, revealed_count |-> rc, pops |-> pops]
    ELSE
        LET top  == stack[Len(stack)]
            rest == SubSeq(stack, 1, Len(stack) - 1)
            i    == index(top[1], top[2])
        IN  IF cs[i].is_revealed
            THEN flood_fill_counts_pops(rest, cs, rc + 1, pops + 1)
            ELSE
                LET cs1  == [cs EXCEPT ![i].is_revealed = TRUE]
                    push == IF cs1[i].adjacent = 0
                            THEN SelectSeq(neighbors(top[1], top[2]),
                                    LAMBDA p :
                                        /\ ~cs1[index(p[1], p[2])].is_revealed
                                        /\ ~cs1[index(p[1], p[2])].is_flagged)
                            ELSE <<>>
                IN  flood_fill_counts_pops(rest \o push, cs1, rc + 1, pops + 1)

\* Mutant of flood_fill: flagged neighbours are pushed too.
RECURSIVE flood_fill_ignores_flags(_, _, _, _)
flood_fill_ignores_flags(stack, cs, rc, pops) ==
    IF stack = <<>> THEN [cells |-> cs, revealed_count |-> rc, pops |-> pops]
    ELSE
        LET top  == stack[Len(stack)]
            rest == SubSeq(stack, 1, Len(stack) - 1)
            i    == index(top[1], top[2])
        IN  IF cs[i].is_revealed
            THEN flood_fill_ignores_flags(rest, cs, rc, pops + 1)
            ELSE
                LET cs1  == [cs EXCEPT ![i].is_revealed = TRUE]
                    push == IF cs1[i].adjacent = 0
                            THEN SelectSeq(neighbors(top[1], top[2]),
                                    LAMBDA p :
                                        ~cs1[index(p[1], p[2])].is_revealed)
                            ELSE <<>>
                IN  flood_fill_ignores_flags(rest \o push, cs1, rc + 1, pops + 1)

\* Mutant of flood_fill: a popped cell that is already revealed is not
\* skipped but marked, counted and expanded again.
RECURSIVE flood_fill_no_skip(_, _, _, _)
flood_fill_no_skip(stack, cs, rc, pops) ==
    IF stack = <<>> THEN [cells |-> cs, revealed_count |-> rc, pops |-> pops]
    ELSE
        LET top  == stack[Len(stack)]
            rest == SubSeq(stack, 1, Len(stack) - 1)
            i    == index(top[1], top[2])
            cs1  == [cs EXCEPT ![i].is_revealed = TRUE]
            push == IF cs1[i].adjacent = 0
                    THEN SelectSeq(neighbors(top[1], top[2]),
                            LAMBDA p :
                                /\ ~cs1[index(p[1], p[2])].is_revealed
                                /\ ~cs1[index(p[1], p[2])].is_flagged)
                    ELSE <<>>
        IN  flood_fill_no_skip(rest \o push, cs1, rc + 1, pops + 1)

RECURSIVE flood_fill(_, _, _, _)
flood_fill(stack, cs, rc, pops) ==
    IF stack = <<>> THEN [cells |-> cs, revealed_count |-> rc, pops |-> pops]
    ELSE
        LET top  == stack[Len(stack)]                    \* stack.pop()
            rest == SubSeq(stack, 1, Len(stack) - 1)
            i    == index(top[1], top[2])
        IN  IF cs[i].is_revealed
            THEN flood_fill(rest, cs, rc, pops + 1)      \* continue
            ELSE
                LET cs1  == [cs EXCEPT ![i].is_revealed = TRUE]
                    push == IF cs1[i].adjacent = 0
                            THEN SelectSeq(neighbors(top[1], top[2]),
                                    LAMBDA p :
                                        /\ ~cs1[index(p[1], p[2])].is_revealed
                                        /\ ~cs1[index(p[1], p[2])].is_flagged)
                            ELSE <<>>
                IN  flood_fill(rest \o push, cs1, rc + 1, pops + 1)

(***************************************************************************)
(* Board.__init__                                                          *)
(***************************************************************************)
Init ==
    /\ cols \in ColsRange
    /\ rows \in RowsRange
    /\ num_mines \in MinesRange
    /\ NumCells(cols, rows) <= MaxCells            \* bound of the model
    /\ cells = [i \in 0 .. NumCells(cols, rows) - 1 |-> CellState]
    /\ mines_placed = FALSE
    /\ revealed_count = 0
    /\ game_over = FALSE
    /\ win = FALSE
    \* a Board used on its own: the Game fields stay as Game.__init__ sets them
    /\ started = FALSE
    /\ hints_left = 3

(***************************************************************************)
(* Board.reveal(col, row)                                                  *)
(***************************************************************************)
\* The part of reveal after the two early returns, on the cells cs that
\* place_mines left (or the cells as they were, when mines were placed).
reveal_body(col, row, cs) ==
    IF cs[index(col, row)].is_mine
    THEN /\ cells' = reveal_all_mines(
                        [cs EXCEPT ![index(col, row)].is_revealed = TRUE])
         /\ game_over' = TRUE
         /\ UNCHANGED <<revealed_count, win>>
    ELSE \E f \in {flood_fill(<< <<col, row>> >>, cs, revealed_count, 0)} :
         \E w \in {check_win(f.cells, f.revealed_count, game_over, win)} :
            /\ cells' = w.cells
            /\ revealed_count' = f.revealed_count
            /\ win' = w.win
            /\ UNCHANGED game_over

\* Mutant of reveal_placing: place_mines does not set _mines_placed.
reveal_placing_unmarked(col, row, mines) ==
    /\ UNCHANGED mines_placed
    /\ \E cs \in {place_mines(cells, mines)} : reveal_body(col, row, cs)

\* reveal on a board without mines: place_mines with `mines` the shuffled
\* prefix, then the rest of reveal.
reveal_placing(col, row, mines) ==
    /\ mines_placed' = TRUE
    /\ \E cs \in {place_mines(cells, mines)} : reveal_body(col, row, cs)

\* Mutant of Reveal: a flagged cell does not stop the call.
Reveal_through_flag(col, row) ==
    /\ IF ~is_inbounds(col, row)
       THEN UNCHANGED board
       ELSE IF cells[index(col, row)].is_revealed
       THEN UNCHANGED board
       ELSE IF ~mines_placed
       THEN \E mines \in MinePrefixes(col, row) :
                reveal_placing(col, row, mines)
       ELSE /\ UNCHANGED mines_placed
            /\ reveal_body(col, row, cells)
    /\ UNCHANGED <<cols, rows, num_mines>>

Reveal(col, row) ==
    /\ IF ~is_inbounds(col, row)
       THEN UNCHANGED board
       ELSE IF \/ cells[index(col, row)].is_revealed
               \/ cells[index(col, row)].is_flagged
       THEN UNCHANGED board
       ELSE IF ~mines_placed
       THEN \E mines \in MinePrefixes(col, row) :
                reveal_placing(col, row, mines)
       ELSE /\ UNCHANGED mines_placed
            /\ reveal_body(col, row, cells)
    /\ UNCHANGED <<cols, rows, num_mines>>

\* The fields of the board that reveal writes once the mines are placed.
board_rec ==
    [cells |-> cells, revealed_count |-> revealed_count,
     game_over |-> game_over, win |-> win]

\* reveal(col, row) as a function: the board that the call leaves of a board
\* b whose mines are placed.
reveal(b, col, row) ==
    IF ~is_inbounds(col, row) THEN b
    ELSE IF \/ b.cells[index(col, row)].is_revealed
            \/ b.cells[index(col, row)].is_flagged
    THEN b
    ELSE IF b.cells[index(col, row)].is_mine
    THEN [b EXCEPT !.cells = reveal_all_mines(
                        [b.cells EXCEPT ![index(col, row)].is_revealed = TRUE]),
                   !.game_over = TRUE]
    ELSE CHOOSE r \in UNION
            {{[cells |-> w.cells, revealed_count |-> f.revealed_count,
               game_over |-> b.game_over, win |-> w.win] :
                    w \in {check_win(f.cells, f.revealed_count,
                                     b.game_over, b.win)}} :
                f \in {flood_fill(<< <<col, row>> >>, b.cells,
                                  b.revealed_count, 0)}} : TRUE

(***************************************************************************)
(* Board.toggle_flag(col, row)                                             *)
(***************************************************************************)
\* Mutant of toggle_flag: a finished game does not stop the call.
toggle_flag_after_end(col, row, cs) ==
    IF ~is_inbounds(col, row) THEN cs
    ELSE IF cs[index(col, row)].is_revealed THEN cs
    ELSE [cs EXCEPT ![index(col, row)].is_flagged = ~@]

\* Mutant of toggle_flag: a revealed target does not stop the call.
toggle_flag_on_revealed(col, row, cs) ==
    IF ~is_inbounds(col, row) THEN cs
    ELSE IF game_over \/ win THEN cs
    ELSE [cs EXCEPT ![index(col, row)].is_flagged = ~@]

toggle_flag(col, row, cs) ==
    IF ~is_inbounds(col, row) THEN cs
    ELSE IF game_over \/ win THEN cs
    ELSE IF cs[index(col, row)].is_revealed THEN cs
    ELSE [cs EXCEPT ![index(col, row)].is_flagged = ~@]

\* bound of the model: the number of cells that carry a flag at a time
FlagCap ==
    IF NumCells(cols, rows) <= SmallCells THEN MaxFlagsSmall ELSE MaxFlags

ToggleFlag(col, row) ==
    /\ cells' = toggle_flag(col, row, cells)
    /\ Cardinality({i \in DOMAIN cells : cells'[i].is_flagged}) <= FlagCap
    /\ UNCHANGED <<cols, rows, num_mines, mines_placed, revealed_count,
                   game_over, win>>

(***************************************************************************)
(* Board.flagged_count(): the body is `pass`, so the call returns None.    *)
(***************************************************************************)
\* The value the call returns on cell list cs.
flagged_count(cs) == PyNone

\* A call of flagged_count(): it returns a value and assigns nothing.
FlaggedCount ==
    /\ flagged_count(cells).type \in {"NoneType", "int"}
    /\ UNCHANGED vars

Next ==
    \/ \E a \in CallArgs : Reveal(a[1], a[2]) /\ UNCHANGED game
    \/ \E a \in CallArgs : ToggleFlag(a[1], a[2]) /\ UNCHANGED game
    \/ FlaggedCount

Spec == Init /\ [][Next]_vars

(***************************************************************************)
(* The presentation layer (src/run.py): Game and InputController, as far   *)
(* as they call the Board.  Pixels, timers, highlights and drawing change  *)
(* no Board and are left out; a click arrives as the grid cell that        *)
(* pos_to_grid gives for it, (-1, -1) outside the grid, and as whether it  *)
(* lies in the restart button.  The statements are taken in the nesting    *)
(* that their indentation intends.                                         *)
(***************************************************************************)
\* config.difficulties: the (cols, rows, mines) of each level.  The file is
\* not part of src/; the levels are the valid configurations (section 6).
difficulties ==
    {d \in ColsRange \X RowsRange \X MinesRange :
        /\ d[1] > 0 /\ d[2] > 0 /\ d[3] >= 0
        /\ d[3] <= d[1] * d[2] - 9
        /\ NumCells(d[1], d[2]) <= MaxCells}

\* the buttons of a MOUSEBUTTONDOWN event
mouse_buttons == {"left", "right", "middle"}

\* what pos_to_grid returns for the positions of a click
GridArgs == all_positions \cup {<<-1, -1>>}

\* _init_board_by_difficulty with d the level's configuration: a new Board
init_board_by_difficulty(d) ==
    /\ cols' = d[1]
    /\ rows' = d[2]
    /\ num_mines' = d[3]
    /\ cells' = [i \in 0 .. NumCells(d[1], d[2]) - 1 |-> CellState]
    /\ mines_placed' = FALSE
    /\ revealed_count' = 0
    /\ game_over' = FALSE
    /\ win' = FALSE

\* Game.reset(): the level is the one of the current board
reset ==
    /\ init_board_by_difficulty(<<cols, rows, num_mines>>)
    /\ hints_left' = 3
    /\ started' = FALSE

\* Game.__init__
GameInit ==
    /\ \E d \in difficulties :
        /\ cols = d[1]
        /\ rows = d[2]
        /\ num_mines = d[3]
        /\ cells = [i \in 0 .. NumCells(d[1], d[2]) - 1 |-> CellState]
    /\ mines_placed = FALSE
    /\ revealed_count = 0
    /\ game_over = FALSE
    /\ win = FALSE
    /\ hints_left = 3
    /\ started = FALSE

\* Mutant of HandleMouse: the clicks on a finished board are handled like
\* the others.
HandleMouse_after_end(button, p, on_restart) ==
    IF p[1] = -1
    THEN UNCHANGED vars
    ELSE IF button = "left"
    THEN /\ started' = TRUE
         /\ Reveal(p[1], p[2])
         /\ UNCHANGED hints_left
    ELSE IF button = "right"
    THEN /\ ToggleFlag(p[1], p[2])
         /\ UNCHANGED game
    ELSE UNCHANGED vars

\* InputController.handle_mouse(pos, button)
HandleMouse(button, p, on_restart) ==
    IF game_over \/ win
    THEN IF button = "left" /\ on_restart
         THEN reset
         ELSE UNCHANGED vars
    ELSE IF p[1] = -1
    THEN UNCHANGED vars
    ELSE IF button = "left"
    THEN /\ started' = TRUE
         /\ Reveal(p[1], p[2])
         /\ UNCHANGED hints_left
    ELSE IF button = "right"
    THEN /\ ToggleFlag(p[1], p[2])
         /\ UNCHANGED game
    ELSE UNCHANGED vars                  \* middle: highlight only

\* candidates of use_hint
candidates ==
    {p \in all_positions :
        /\ ~cells[index(p[1], p[2])].is_revealed
        /\ ~cells[index(p[1], p[2])].is_mine}

\* Game.use_hint()
UseHint ==
    IF ~started \/ game_over \/ win
    THEN UNCHANGED vars
    ELSE IF hints_left <= 0
    THEN UNCHANGED vars
    ELSE IF candidates = {}
    THEN UNCHANGED vars
    ELSE \E p \in candidates :           \* random.choice(candidates)
            /\ Reveal(p[1], p[2])
            /\ hints_left' = hints_left - 1
            /\ UNCHANGED started

\* the key R of run_step: Game.reset()
Reset == reset

\* Game.set_difficulty(level), d the configuration of the level
SetDifficulty(d) ==
    IF started
    THEN UNCHANGED vars
    ELSE /\ init_board_by_difficulty(d)
         /\ hints_left' = 3
         /\ started' = FALSE

GameNext ==
    \/ \E button \in mouse_buttons, p \in GridArgs :
            \* collidepoint is evaluated for a finished board only
            \E on_restart \in IF game_over \/ win THEN BOOLEAN ELSE {FALSE} :
                HandleMouse(button, p, on_restart)
    \/ UseHint
    \/ Reset
    \/ \E d \in difficulties : SetDifficulty(d)

GameSpec == GameInit /\ [][GameNext]_vars

(***************************************************************************)
(* Vocabulary of the properties.                                           *)
(***************************************************************************)
\* The configurations the specification allows (section 3, section 6).
ValidConfig ==
    /\ cols > 0
    /\ rows > 0
    /\ num_mines >= 0
    /\ num_mines <= cols * rows - 9

Terminal == game_over \/ win

RevealedIn(cs) == {i \in DOMAIN cs : cs[i].is_revealed}
MinesIn(cs) == {i \in DOMAIN cs : cs[i].is_mine}
SafeIn(cs) == {i \in DOMAIN cs : ~cs[i].is_mine}
Idx(S) == {index(p[1], p[2]) : p \in S}
NumFlagged == Cardinality({i \in DOMAIN cells : cells[i].is_flagged})

Abs(n) == IF n < 0 THEN -n ELSE n

\* p and q touch by a side or a corner.
Touch(p, q) == p # q /\ Abs(p[1] - q[1]) <= 1 /\ Abs(p[2] - q[2]) <= 1

IsBlank(p) ==
    /\ ~cells[index(p[1], p[2])].is_mine
    /\ cells[index(p[1], p[2])].adjacent = 0

\* The maximal 8-connected region of blank (adjacent = 0) cells around S.
RECURSIVE BlankRegion(_)
BlankRegion(S) ==
    LET T == S \cup {q \in all_positions :
                        IsBlank(q) /\ \E p \in S : Touch(p, q)}
    IN  IF T = S THEN S ELSE BlankRegion(T)

\* The numbered cells that touch the region Z.
Border(Z) ==
    {q \in all_positions \ Z :
        /\ ~cells[index(q[1], q[2])].is_mine
        /\ cells[index(q[1], q[2])].adjacent > 0
        /\ \E p \in Z : Touch(p, q)}

\* The cells reached from S by steps that leave a blank cell for a touching
\* cell that is neither revealed nor flagged.
RECURSIVE Reached(_)
Reached(S) ==
    LET T == S \cup {q \in all_positions :
                        /\ ~cells[index(q[1], q[2])].is_revealed
                        /\ ~cells[index(q[1], q[2])].is_flagged
                        /\ \E p \in S : /\ cells[index(p[1], p[2])].adjacent = 0
                                        /\ Touch(p, q)}
    IN  IF T = S THEN S ELSE Reached(T)

\* reveal(col, row) is about to flood from a hidden blank cell of a board
\* that has its mines and is not finished.
BlankReveal(col, row) ==
    /\ mines_placed
    /\ ~Terminal
    /\ is_inbounds(col, row)
    /\ ~cells[index(col, row)].is_revealed
    /\ ~cells[index(col, row)].is_flagged
    /\ IsBlank(<<col, row>>)

\* This step is reveal(col, row) placing the mines: the call passes the
\* early returns and ends in the next state, whose mines are the prefix
\* the shuffle gave.
PlacedBy(col, row) ==
    /\ is_inbounds(col, row)
    /\ ~cells[index(col, row)].is_revealed
    /\ ~cells[index(col, row)].is_flagged
    /\ LET M == {p \in all_positions : cells'[index(p[1], p[2])].is_mine}
       IN  M \in MinePrefixes(col, row) /\ reveal_placing(col, row, M)

(***************************************************************************)
(* C1.  Once game_over or win is true, every later reveal and toggle_flag  *)
(* call leaves the cells, revealed_count, game_over and win as they were   *)
(* (stated for the boards the specification allows).                       *)
(***************************************************************************)
C1_TerminalCallsAreNoOps ==
    [][(ValidConfig /\ Terminal) => UNCHANGED board]_vars

(***************************************************************************)
(* C2.  game_over and win are never both true (stated for the boards the   *)
(* specification allows).                                                  *)
(***************************************************************************)
C2_GameOverWinExclusive == ValidConfig => ~(game_over /\ win)

(***************************************************************************)
(* C3.  On a board with a valid configuration, the reveal that places the  *)
(* mines leaves its own cell and every in-bounds neighbour of it free of   *)
(* mines, and does not set game_over.                                      *)
(***************************************************************************)
C3_FirstRevealSafe ==
    [][(ValidConfig /\ ~mines_placed /\ mines_placed') =>
        \A a \in CallArgs :
            PlacedBy(a[1], a[2])
            => /\ ~game_over'
               /\ \A p \in all_positions :
                    (p = a \/ Touch(p, a))
                        => ~cells'[index(p[1], p[2])].is_mine]_vars

\* Mines were placed by a first reveal on a valid board that has mines.
C3_Witness ==
    /\ ValidConfig
    /\ mines_placed
    /\ MinesIn(cells) # {}
    /\ revealed_count > 0
    /\ ~game_over

(***************************************************************************)
(* C4 as claimed.  revealed_count equals the number of cells whose         *)
(* is_revealed is true (stated for the boards the specification allows     *)
(* that were not won, so that it is a plain loss that decides it).         *)
(***************************************************************************)
C4_CountsAllRevealed ==
    (ValidConfig /\ ~win) => revealed_count = Cardinality(RevealedIn(cells))

(***************************************************************************)
(* C4 as amended.  revealed_count counts the revealed cells that are not   *)
(* mines: it equals their number as long as win is false and, on a board   *)
(* with a valid configuration, always; once win is true it equals          *)
(* cols*rows - num_mines.  The mines a loss reveals are not counted.       *)
(***************************************************************************)
C4_CountsRevealedSafeCells ==
    /\ (ValidConfig \/ ~win)
         => revealed_count = Cardinality(RevealedIn(cells) \cap SafeIn(cells))
    /\ win => revealed_count = cols * rows - num_mines

\* A lost game on a valid board: mines are revealed and not counted.
C4_Witness ==
    /\ ValidConfig
    /\ game_over
    /\ ~win
    /\ revealed_count > 0
    /\ revealed_count < Cardinality(RevealedIn(cells))

(***************************************************************************)
(* C5.  win is true if and only if revealed_count = cols*rows - num_mines  *)
(* and no mine cell has been revealed (stated for the boards the           *)
(* specification allows; is_revealed is never reset, so "ever revealed"    *)
(* is "revealed now").                                                     *)
(***************************************************************************)
C5_WinIffAllSafeRevealed ==
    ValidConfig =>
        (win <=> /\ revealed_count = cols * rows - num_mines
                 /\ RevealedIn(cells) \cap MinesIn(cells) = {})

(***************************************************************************)
(* C6.  game_over is true if and only if some mine cell is revealed.       *)
(***************************************************************************)
C6_GameOverIffMineRevealed ==
    game_over <=> (RevealedIn(cells) \cap MinesIn(cells) # {})

\* A lost game: a mine was revealed.
C6_Witness ==
    /\ game_over
    /\ RevealedIn(cells) \cap MinesIn(cells) # {}
    /\ RevealedIn(cells) \cap SafeIn(cells) # {}

(***************************************************************************)
(* C7 as claimed.  A reveal of a hidden, unflagged blank cell of an        *)
(* unfinished board (valid configuration) leaves revealed the whole        *)
(* maximal 8-connected blank region around the cell and every numbered     *)
(* cell bordering it, and reveals nothing else.                            *)
(***************************************************************************)
C7_RevealsWholeRegion ==
    [][(ValidConfig /\ revealed_count' # revealed_count) =>
       \A a \in CallArgs :
        (BlankReveal(a[1], a[2]) /\ Reveal(a[1], a[2]))
        => LET Z == BlankRegion({a})
               R == Idx(Z \cup Border(Z))
           IN  /\ R \subseteq RevealedIn(cells')
               /\ RevealedIn(cells') \ RevealedIn(cells) \subseteq R]_vars

(***************************************************************************)
(* C7 as amended.  A reveal of a hidden, unflagged blank cell of an        *)
(* unfinished board reveals exactly the cells reached from it by steps     *)
(* that leave a blank cell for a neighbour that was neither revealed nor   *)
(* flagged before the call: flagged cells stay hidden, and so do cells     *)
(* that are reached only through flagged or already revealed cells.  All   *)
(* of them lie in the blank region or on its numbered border.  (Only a     *)
(* call that sets win on a board with an invalid configuration reveals     *)
(* more: the win check then reveals every cell that is not a mine.)        *)
(***************************************************************************)
C7_RevealsReachedCells ==
    [][(revealed_count' # revealed_count) =>
       \A a \in CallArgs :
        (BlankReveal(a[1], a[2]) /\ cells'[index(a[1], a[2])].is_revealed
            /\ Reveal(a[1], a[2]))
        => LET Z == BlankRegion({a})
               F == Idx(Reached({a}))
           IN  /\ F \subseteq Idx(Z \cup Border(Z))
               /\ (ValidConfig \/ ~win')
                    => RevealedIn(cells') = RevealedIn(cells) \cup F
               /\ win' => RevealedIn(cells') \cap SafeIn(cells) = SafeIn(cells)
               /\ RevealedIn(cells') \cap MinesIn(cells) = {}]_vars

\* A flood fill on a valid board stopped at a flag: a revealed blank cell
\* touches a hidden flagged cell.
C7_Witness ==
    /\ ValidConfig
    /\ mines_placed
    /\ ~Terminal
    /\ \E p, q \in all_positions :
        /\ Touch(p, q)
        /\ IsBlank(p)
        /\ cells[index(p[1], p[2])].is_revealed
        /\ cells[index(q[1], q[2])].is_flagged
        /\ ~cells[index(q[1], q[2])].is_revealed

(***************************************************************************)
(* C8.  A Board never exists with cols <= 0, rows <= 0, mines < 0 or       *)
(* mines > cols*rows - 9, so place_mines always finds num_mines cells in   *)
(* its pool.                                                               *)
(***************************************************************************)
C8_InvalidConfigRejected ==
    /\ ValidConfig
    /\ mines_placed => Cardinality(MinesIn(cells)) = num_mines

(***************************************************************************)
(* C9.  flagged_count() returns the number of flagged cells.               *)
(***************************************************************************)
C9_FlaggedCountCounts == flagged_count(cells) = PyInt(NumFlagged)

(***************************************************************************)
(* C10.  After a loss every mine cell is revealed, and after a win every   *)
(* cell that is not a mine is revealed, in that state and every later one. *)
(***************************************************************************)
C10_EndStatesRevealed ==
    /\ game_over => MinesIn(cells) \subseteq RevealedIn(cells)
    /\ win => SafeIn(cells) \subseteq RevealedIn(cells)

\* A lost game on a board with several mines, all of them revealed.
C10_Witness ==
    /\ game_over
    /\ Cardinality(MinesIn(cells)) >= 2
    /\ MinesIn(cells) \subseteq RevealedIn(cells)
    /\ RevealedIn(cells) \cap SafeIn(cells) # {}

(***************************************************************************)
(* C11.  Once the mines are placed, in every state, the adjacent value of  *)
(* every cell that is not a mine is the number of mine cells that touch it *)
(* by a side or a corner, a number in 0..8.                                *)
(***************************************************************************)
MinesTouching(p) ==
    {q \in all_positions : Touch(p, q) /\ cells[index(q[1], q[2])].is_mine}

C11_AdjacentIsMineCount ==
    mines_placed =>
        \A p \in all_positions :
            ~cells[index(p[1], p[2])].is_mine
            => /\ cells[index(p[1], p[2])].adjacent
                    = Cardinality(MinesTouching(p))
               /\ cells[index(p[1], p[2])].adjacent \in 0 .. 8

\* A placed board with a cell that a mine touches by a corner only, and a
\* cell that no mine touches.
C11_Witness ==
    /\ mines_placed
    /\ \E p \in all_positions :
        /\ ~cells[index(p[1], p[2])].is_mine
        /\ cells[index(p[1], p[2])].adjacent >= 1
        /\ \A q \in MinesTouching(p) : q[1] # p[1] /\ q[2] # p[2]
    /\ \E p \in all_positions : IsBlank(p)

(***************************************************************************)
(* C12.  reveal(col, row) with (col, row) out of bounds, or with a target  *)
(* cell that is revealed or flagged, changes nothing: no cell field, not   *)
(* revealed_count, game_over or win, and not mines_placed (no mines are    *)
(* placed).                                                                *)
(***************************************************************************)
RevealBlocked(col, row) ==
    \/ col < 0 \/ col >= cols \/ row < 0 \/ row >= rows
    \/ cells[row * cols + col].is_revealed
    \/ cells[row * cols + col].is_flagged

C12_BlockedRevealIsNoOp ==
    [][(board' # board) =>
        \A a \in CallArgs :
            RevealBlocked(a[1], a[2]) => ~Reveal(a[1], a[2])]_vars

\* A board without mines that carries a flag: a reveal of the flagged cell
\* leaves the mines unplaced.
C12_Witness ==
    /\ ~mines_placed
    /\ cols > 0 /\ rows > 0
    /\ NumFlagged >= 1
    /\ revealed_count = 0
    /\ MinesIn(cells) = {}
    /\ num_mines > 0

(***************************************************************************)
(* C13.  toggle_flag(col, row) changes no is_flagged value when (col, row) *)
(* is out of bounds, when game_over or win is true, or when the target     *)
(* cell is revealed; in every other case it flips is_flagged of the target *)
(* cell and of no other cell.  It changes nothing else in any case.        *)
(***************************************************************************)
FlagsOf(cs) == {i \in DOMAIN cs : cs[i].is_flagged}

ToggleBlocked(col, row) ==
    \/ col < 0 \/ col >= cols \/ row < 0 \/ row >= rows
    \/ game_over
    \/ win
    \/ cells[row * cols + col].is_revealed

C13_ToggleFlagFlipsTarget ==
    [][(cells' # cells /\ revealed_count' = revealed_count) =>
       \A a \in CallArgs :
        ToggleFlag(a[1], a[2])
        => /\ IF ToggleBlocked(a[1], a[2])
              THEN FlagsOf(cells') = FlagsOf(cells)
              ELSE LET t == a[2] * cols + a[1]
                   IN  /\ FlagsOf(cells') \ {t} = FlagsOf(cells) \ {t}
                       /\ (t \in FlagsOf(cells')) <=> (t \notin FlagsOf(cells))
           /\ \A i \in DOMAIN cells :
                /\ cells'[i].is_mine = cells[i].is_mine
                /\ cells'[i].is_revealed = cells[i].is_revealed
                /\ cells'[i].adjacent = cells[i].adjacent
           /\ UNCHANGED <<mines_placed, revealed_count, game_over, win>>]_vars

\* An unfinished board with mines and revealed cells that carries a flag.
C13_Witness ==
    /\ mines_placed
    /\ ~Terminal
    /\ revealed_count > 0
    /\ MinesIn(cells) # {}
    /\ NumFlagged >= 1

(***************************************************************************)
(* C14.  Mines are placed once: the step that places them sets is_mine on  *)
(* exactly num_mines cells, and no other step changes is_mine or adjacent  *)
(* of any cell or resets mines_placed (stated for the boards of positive   *)
(* size with a mine count that is not negative).                           *)
(***************************************************************************)
LayoutOf(cs) == [i \in DOMAIN cs |-> <<cs[i].is_mine, cs[i].adjacent>>]

C14_MinesPlacedOnce ==
    [][(cols > 0 /\ rows > 0 /\ num_mines >= 0) =>
       IF ~mines_placed /\ mines_placed'
       THEN Cardinality(MinesIn(cells')) = num_mines
       ELSE /\ mines_placed' = mines_placed
            /\ LayoutOf(cells') = LayoutOf(cells)]_vars

(***************************************************************************)
(* C15.  In every state in which mines_placed is false no cell is a mine,  *)
(* game_over is false and revealed_count is 0.                             *)
(***************************************************************************)
C15_NoMinesBeforePlacement ==
    ~mines_placed
        => /\ MinesIn(cells) = {}
           /\ ~game_over
           /\ revealed_count = 0

\* A board that was flagged twice, and had reveals stopped by the flags,
\* before any mine was placed.
C15_Witness ==
    /\ ~mines_placed
    /\ num_mines > 0
    /\ NumFlagged >= 2

(***************************************************************************)
(* C16.  On a board with num_mines = 0 that is as the constructor left it  *)
(* (nothing flagged, nothing revealed, mines not placed), the first reveal *)
(* of an in-bounds cell reveals every cell, sets win, leaves game_over     *)
(* false and leaves revealed_count = cols*rows.                            *)
(***************************************************************************)
AsConstructed ==
    /\ ~mines_placed
    /\ revealed_count = 0
    /\ ~game_over
    /\ ~win
    /\ \A i \in DOMAIN cells : cells[i] = CellState

C16_NoMinesFirstRevealWins ==
    [][(num_mines = 0 /\ AsConstructed /\ mines_placed') =>
        /\ \A i \in DOMAIN cells : cells'[i].is_revealed
        /\ win'
        /\ ~game_over'
        /\ revealed_count' = cols * rows]_vars

\* The 3x3 board without mines after its first reveal.
C16_Witness ==
    /\ num_mines = 0
    /\ cols = 3
    /\ rows = 3
    /\ win
    /\ ~game_over
    /\ revealed_count = 9
    /\ Cardinality(RevealedIn(cells)) = 9
    /\ NumFlagged = 0

(***************************************************************************)
(* C17.  Every reveal ends with its worklist empty (flood_fill returns     *)
(* only then): in every state, for every reveal that passes the early      *)
(* returns and does not hit a mine, the pops of the call are at least 1    *)
(* and at most 1 + 8*cols*rows, and the call marks a cell revealed only if *)
(* it was hidden, so it adds to revealed_count exactly the number of cells *)
(* it newly reveals.  No step hides a revealed cell.                       *)
(***************************************************************************)
\* The cell lists on which reveal(a) starts its flood fill in this state:
\* the cells as they are or, on a board without mines, as place_mines
\* leaves them for some shuffle.
FillInputs(a) ==
    IF mines_placed THEN {cells}
    ELSE {place_mines(cells, M) : M \in MinePrefixes(a[1], a[2])}

FillsBounded ==
    \A a \in all_positions :
        (~cells[index(a[1], a[2])].is_revealed
            /\ ~cells[index(a[1], a[2])].is_flagged)
        => \A cs \in FillInputs(a) :
            ~cs[index(a[1], a[2])].is_mine
            => \A f \in {flood_fill(<<a>>, cs, revealed_count, 0)} :
                /\ f.pops >= 1
                /\ f.pops <= 1 + 8 * cols * rows
                /\ f.revealed_count - revealed_count
                      = Cardinality(RevealedIn(f.cells))
                          - Cardinality(RevealedIn(cs))
                /\ f.revealed_count - revealed_count <= f.pops
                /\ RevealedIn(cs) \subseteq RevealedIn(f.cells)

C17_FloodFillBounded ==
    /\ []FillsBounded
    /\ [][(cells' # cells) =>
            RevealedIn(cells) \subseteq RevealedIn(cells')]_vars

\* A board on which one reveal flooded at least eight cells around a mine.
C17_Witness ==
    /\ mines_placed
    /\ MinesIn(cells) # {}
    /\ ~Terminal
    /\ revealed_count >= 8
    /\ NumFlagged = 0

(***************************************************************************)
(* C18.  For every integer pair (col, row), neighbors(col, row) is the     *)
(* list of the cells (col+dc, row+dr), dc and dr in -1..1 and not both 0,  *)
(* with 0 <= col+dc < cols and 0 <= row+dr < rows: each of them once,      *)
(* never (col, row) itself, in the order of the deltas (row by row, left   *)
(* to right).  For in-bounds cells a and b, a is a neighbour of b exactly  *)
(* if b is a neighbour of a.  (neighbors reads cols and rows only, which   *)
(* the constructor fixes, so it is checked on every board before its mines *)
(* are placed; the pairs reach two cells beyond the grid on every side.)   *)
(***************************************************************************)
NeighborArgs ==
    {<<c, r>> : c \in -2 .. Max(cols, 0) + 1, r \in -2 .. Max(rows, 0) + 1}

Around(a) ==
    {q \in {<<a[1] + dc, a[2] + dr>> : dc \in -1 .. 1, dr \in -1 .. 1} :
        /\ q # a
        /\ 0 <= q[1] /\ q[1] < cols
        /\ 0 <= q[2] /\ q[2] < rows}

C18_NeighborsExact ==
    ~mines_placed =>
        /\ \A a \in NeighborArgs :
            \A n \in {neighbors(a[1], a[2])} :
                /\ Range(n) = Around(a)
                /\ a \notin Range(n)
                /\ \A i, j \in DOMAIN n :
                    i < j => \/ n[i][2] < n[j][2]
                             \/ n[i][2] = n[j][2] /\ n[i][1] < n[j][1]
        /\ \A a, b \in all_positions :
            (a \in Range(neighbors(b[1], b[2])))
                <=> (b \in Range(neighbors(a[1], a[2])))

\* A board with an inner cell, whose neighbours are all eight, with corner
\* cells, and with pairs outside the grid that have one neighbour or none.
C18_Witness ==
    /\ cols >= 3
    /\ rows >= 3
    /\ Len(neighbors(1, 1)) = 8
    /\ neighbors(0, 0) = << <<1, 0>>, <<0, 1>>, <<1, 1>> >>
    /\ neighbors(-1, -1) = << <<0, 0>> >>
    /\ neighbors(-2, 0) = << >>
    /\ ~mines_placed

(***************************************************************************)
(* C19.  On a board with a valid configuration, in every state, no cell    *)
(* that is not a mine is both revealed and flagged; and a step reveals a   *)
(* flagged cell only if the cell is a mine and the step is the loss, which *)
(* sets game_over and reveals every mine.  (Checked beyond the claim, too, *)
(* on every board whose placed mines are not fewer than num_mines.)        *)
(***************************************************************************)
MinesAsConfigured ==
    \/ ValidConfig
    \/ mines_placed /\ num_mines <= Cardinality(MinesIn(cells))

C19_FlagsKeepCellsHidden ==
    /\ [](MinesAsConfigured =>
            \A i \in DOMAIN cells :
                (cells[i].is_revealed /\ cells[i].is_flagged)
                    => cells[i].is_mine)
    /\ [][(MinesAsConfigured /\ cells' # cells) =>
            \A i \in DOMAIN cells :
                (cells[i].is_flagged /\ ~cells[i].is_revealed
                    /\ cells'[i].is_revealed)
                => /\ cells[i].is_mine
                   /\ ~game_over
                   /\ game_over'
                   /\ MinesIn(cells) \subseteq RevealedIn(cells')]_vars

\* A lost game on a valid board: the mines are revealed and a flagged cell
\* that is not a mine is still hidden.
C19_Witness ==
    /\ ValidConfig
    /\ game_over
    /\ MinesIn(cells) # {}
    /\ MinesIn(cells) \subseteq RevealedIn(cells)
    /\ \E i \in SafeIn(cells) :
        cells[i].is_flagged /\ ~cells[i].is_revealed

(***************************************************************************)
(* C20.  Once the mines are placed, for any two cells A and B that are not *)
(* mines, with the flags as they are, reveal(A) followed by reveal(B)      *)
(* leaves the same cells, revealed_count, win and game_over as reveal(B)   *)
(* followed by reveal(A) (stated for the boards of positive size with a    *)
(* mine count that is not negative).                                       *)
(***************************************************************************)
C20_RevealsCommute ==
    (mines_placed /\ num_mines >= 0) =>
        \A A, B \in {p \in all_positions : ~cells[index(p[1], p[2])].is_mine} :
            \A x \in {reveal(board_rec, A[1], A[2])} :
            \A y \in {reveal(board_rec, B[1], B[2])} :
                reveal(x, B[1], B[2]) = reveal(y, A[1], A[2])

=============================================================================
